---- MODULE Spec2Model ----
(***************************************************************************)
(* Model of the Franka Desk API client (src/src/franka_desk.py) and of the *)
(* bootstrap script enable_robot (src/scripts/enable_franka.py).           *)
(*                                                                         *)
(* Two specifications share the client's operations:                       *)
(*   Spec      two FrankaDesk sessions calling any method in any order     *)
(*             against one remote robot;                                   *)
(*   SpecBoot  one run of enable_robot against the remote robot.           *)
(* The remote robot is the environment: it answers every request with a    *)
(* status and a body, and changes its own state only when it answers with  *)
(* a 2xx status.                                                           *)
(***************************************************************************)
EXTENDS Integers, Sequences, FiniteSets, TLC

\* ---------------------------------------------------------------- bounds
MaxTokens == 2      \* tokens the remote can issue in one behaviour
MaxPolls == 2       \* get_operating_mode polls recorded in the call log
MaxJoints == 1      \* entries of the list the remote returns for /api/arm/joints

\* ------------------------------------------------------------- constants
None == 0           \* Python's None in self.key; tokens are 1..MaxTokens
OK == 200
TOLERATED == 500

Sessions == {1, 2}
Boot == 1           \* the FrankaDesk instance enable_robot constructs
Tokens == 1..MaxTokens
Statuses == {200, 204, 409, 500, 503}
Modes == {"Execution", "Programming", "Booting"}
SettableModes == {"Execution", "Programming"}
MISSING == "None"   \* dict.get on an absent field, as a mode string

VARIABLES
    key,        \* key[s]: self.key of session s (None or a token)
    valid,      \* remote: the control token it currently accepts (None: no owner)
    issued,     \* remote: number of tokens issued so far
    joints,     \* remote: "locked" or "unlocked" (all joints at once)
    fci,        \* remote: fast control interface active
    mode,       \* remote: operating mode
    last,       \* the latest method call: who, what, what was answered, how it ended
    pc,         \* enable_robot: position in the script ("idle" when no script runs)
    calls       \* enable_robot: the methods called so far, with their outcome

remote == <<valid, issued, joints, fci, mode>>
vars == <<key, valid, issued, joints, fci, mode, last, pc, calls>>

\* --------------------------------------------------------------- responses
\* What requests.post / requests.get hands back: a response with a status and
\* a body, or no response at all (connection error, timeout).
\* body: json = the body decodes as JSON; token, status = the value dict.get
\* finds for that field (None / MISSING when the field is absent). NoBody is
\* a body that does not decode.
NoBody == [json |-> FALSE, token |-> None, status |-> MISSING]
NoResponse == [delivered |-> FALSE, status |-> 0, body |-> NoBody]
Answers(bodies) == [delivered : {TRUE}, status : Statuses, body : bodies] \cup {NoResponse}
\* bodies of the control-token endpoint, of the operating-mode endpoint, and
\* of the endpoints whose body the client never reads
TokenBodies == {NoBody} \cup [json : {TRUE}, token : Tokens \cup {None}, status : {MISSING}]
ModeBodies == {NoBody} \cup [json : {TRUE}, token : {None}, status : Modes \cup {MISSING}]
ListBodies == {NoBody} \cup [json : {TRUE}, token : {None}, status : {MISSING}]
PlainBodies == {NoBody}

Success(status) == status >= 200 /\ status < 300

\* requests.Response.raise_for_status: raises HTTPError for 4xx and 5xx only.
raise_for_status(status) == status >= 400 /\ status < 600

\* ------------------------------------------------------------------ remote
\* The robot's side of each endpoint. It acts only when it answers 2xx; it
\* hands out a token only while nobody owns control, accepts a control-gated
\* request only with the token it currently accepts, and forgets the owner
\* when it reboots.
RemoteTake(r) ==
    IF r.delivered /\ Success(r.status) /\ r.body.json /\ r.body.token /= None
    THEN /\ valid = None
         /\ issued < MaxTokens
         /\ r.body.token = issued + 1
         /\ valid' = r.body.token
         /\ issued' = issued + 1
         /\ UNCHANGED <<joints, fci, mode>>
    ELSE UNCHANGED remote

RemoteGated(op, tok, arg, r) ==
    IF r.delivered /\ Success(r.status)
    THEN /\ tok /= None
         /\ tok = valid
         /\ joints' = CASE op = "unlock_joints" -> "unlocked"
                        [] op = "lock_joints" -> "locked"
                        [] OTHER -> joints
         /\ fci' = CASE op = "activate_fci" -> TRUE
                     [] op = "deactivate_fci" -> FALSE
                     [] OTHER -> fci
         /\ mode' = IF op = "set_mode" THEN arg ELSE mode
         /\ UNCHANGED <<valid, issued>>
    ELSE UNCHANGED remote

RemoteReboot(r) ==
    IF r.delivered /\ Success(r.status)
    THEN /\ valid' = None
         /\ mode' = "Booting"
         /\ UNCHANGED <<issued, joints, fci>>
    ELSE UNCHANGED remote

RemoteRead(r) ==
    /\ (r.delivered /\ Success(r.status) /\ r.body.json) => r.body.status \in {mode, MISSING}
    /\ UNCHANGED remote

\* The reboot completes: the robot reaches the Execution mode.
RemoteBootDone ==
    /\ mode = "Booting"
    /\ mode' = "Execution"
    /\ UNCHANGED <<valid, issued, joints, fci>>

\* ------------------------------------------------------------------ client
\* has_control(): self.key is not None
has_control(s) == key[s] /= None

\* `self.has_control` written without parentheses: the bound method object,
\* which is truthy whatever self.key holds.
has_control_ref(s) == TRUE

\* The record of one method call.
\*   sent    a network request was issued
\*   hadKey  self.key was not None when the method was entered
\*   tok     the token field of the answer's body (take_control)
\*   ret     the returned mode (get_operating_mode)
\*   list    the returned list (get_joint_states)
\*   again   the preceding call was the same method of the same session and
\*           returned without error
Call(s, op, outcome, sent, r, ret, list) ==
    [session |-> s, op |-> op, outcome |-> outcome, sent |-> sent,
     status |-> r.status, hadKey |-> has_control(s), tok |-> r.body.token,
     ret |-> ret, list |-> list,
     again |-> (last.op = op /\ last.session = s /\ last.outcome = "ok")]

NoCall ==
    [session |-> 0, op |-> "none", outcome |-> "ok", sent |-> FALSE,
     status |-> 0, hadKey |-> FALSE, tok |-> None, ret |-> MISSING,
     list |-> <<>>, again |-> FALSE]

\* outcome of `response.raise_for_status()` on what the transport handed back
Checked(r) ==
    IF ~r.delivered THEN "ConnectionError"
    ELSE IF raise_for_status(r.status) THEN "HTTPError"
    ELSE "ok"

\* take_control: post, raise_for_status, self.key = response.json().get("token")
take_control_outcome(r) ==
    IF Checked(r) /= "ok" THEN Checked(r)
    ELSE IF ~r.body.json THEN "ValueError"
    ELSE "ok"

\* self.key after take_control: assigned only on the last line, which an
\* exception raised before it skips
stored_key_dropped_on_failure(s, r) ==
    IF take_control_outcome(r) = "ok"
    THEN [key EXCEPT ![s] = r.body.token]
    ELSE [key EXCEPT ![s] = None]
stored_key(s, r) ==
    IF take_control_outcome(r) = "ok"
    THEN [key EXCEPT ![s] = r.body.token]
    ELSE key

take_control(s) ==
    \E r \in Answers(TokenBodies) :
        /\ RemoteTake(r)
        /\ key' = stored_key(s, r)
        /\ last' = Call(s, "take_control", take_control_outcome(r), TRUE, r, MISSING, <<>>)

\* unlock_joints / activate_fci: `if response.status_code not in [200, 500]:
\* response.raise_for_status()`
tolerant_outcome_no_tolerance(r) == Checked(r)
tolerant_outcome(r) ==
    IF ~r.delivered THEN "ConnectionError"
    ELSE IF r.status \notin {OK, TOLERATED} /\ raise_for_status(r.status) THEN "HTTPError"
    ELSE "ok"

\* lock_joints / set_mode / deactivate_fci: `requests.post(...).raise_for_status()`
strict_outcome_tolerating(r) ==
    IF r.delivered /\ r.status = TOLERATED THEN "ok" ELSE Checked(r)
strict_outcome(r) == Checked(r)

\* A control-gated method: the guard, then one request carrying self.key.
\* raise RuntimeError("We do not have control, ...")
Refuse(s, op) ==
    /\ last' = Call(s, op, "RuntimeError", FALSE, NoResponse, MISSING, <<>>)
    /\ UNCHANGED <<key, remote>>

\* requests.post(..., headers={"X-Control-Token": self.key}, ...)
Post(s, op, arg, r, outcome) ==
    /\ RemoteGated(op, key[s], arg, r)
    /\ last' = Call(s, op, outcome, TRUE, r, MISSING, <<>>)
    /\ UNCHANGED key

unlock_joints(s) ==
    IF ~has_control_ref(s) THEN Refuse(s, "unlock_joints")
    ELSE \E r \in Answers(PlainBodies) :
            Post(s, "unlock_joints", mode, r, tolerant_outcome(r))

lock_joints(s) ==
    IF ~has_control_ref(s) THEN Refuse(s, "lock_joints")
    ELSE \E r \in Answers(PlainBodies) :
            Post(s, "lock_joints", mode, r, strict_outcome(r))

set_mode(s, m) ==
    IF ~has_control_ref(s) THEN Refuse(s, "set_mode")
    ELSE \E r \in Answers(PlainBodies) :
            Post(s, "set_mode", m, r, strict_outcome(r))

deactivate_fci(s) ==
    IF ~has_control_ref(s) THEN Refuse(s, "deactivate_fci")
    ELSE \E r \in Answers(PlainBodies) :
            Post(s, "deactivate_fci", mode, r, strict_outcome(r))

activate_fci(s) ==
    IF ~has_control_ref(s) THEN Refuse(s, "activate_fci")
    ELSE \E r \in Answers(PlainBodies) :
            Post(s, "activate_fci", mode, r, tolerant_outcome(r))

\* reboot: one post, the response is dropped
reboot_outcome_checked(r) == Checked(r)
reboot_outcome(r) == IF ~r.delivered THEN "ConnectionError" ELSE "ok"

reboot_clearing_key(s) ==
    \E r \in Answers(PlainBodies) :
        /\ RemoteReboot(r)
        /\ last' = Call(s, "reboot", reboot_outcome(r), TRUE, r, MISSING, <<>>)
        /\ key' = [key EXCEPT ![s] = None]
reboot(s) ==
    \E r \in Answers(PlainBodies) :
        /\ RemoteReboot(r)
        /\ last' = Call(s, "reboot", reboot_outcome(r), TRUE, r, MISSING, <<>>)
        /\ UNCHANGED key

\* get_operating_mode: get, raise_for_status, response.json().get("status")
get_outcome(r) ==
    IF Checked(r) /= "ok" THEN Checked(r)
    ELSE IF ~r.body.json THEN "ValueError"
    ELSE "ok"

get_operating_mode(s) ==
    \E r \in Answers(ModeBodies) :
        /\ RemoteRead(r)
        /\ last' = Call(s, "get_operating_mode", get_outcome(r), TRUE, r,
                        IF get_outcome(r) = "ok" THEN r.body.status ELSE MISSING, <<>>)
        /\ UNCHANGED key

\* get_joint_states: get, raise_for_status, [joint.get("brakeStatus") for joint in response.json()]
get_joint_states(s) ==
    \E r \in Answers(ListBodies) :
        /\ UNCHANGED remote
        /\ last' = Call(s, "get_joint_states", get_outcome(r), TRUE, r, MISSING,
                        IF get_outcome(r) = "ok"
                        THEN [i \in 1..MaxJoints |-> joints]
                        ELSE <<>>)
        /\ UNCHANGED key

\* ------------------------------------------------- Spec: free use of the API
Init ==
    /\ key = [s \in Sessions |-> None]
    /\ valid = None
    /\ issued = 0
    /\ joints = "locked"
    /\ fci = FALSE
    /\ mode = "Execution"
    /\ last = NoCall
    /\ pc = "idle"
    /\ calls = <<>>

script == <<pc, calls>>

TakeControl == \E s \in Sessions : take_control(s) /\ UNCHANGED script
UnlockJoints == \E s \in Sessions : unlock_joints(s) /\ UNCHANGED script
LockJoints == \E s \in Sessions : lock_joints(s) /\ UNCHANGED script
SetMode == \E s \in Sessions, m \in SettableModes : set_mode(s, m) /\ UNCHANGED script
Reboot == \E s \in Sessions : reboot(s) /\ UNCHANGED script
DeactivateFci == \E s \in Sessions : deactivate_fci(s) /\ UNCHANGED script
ActivateFci == \E s \in Sessions : activate_fci(s) /\ UNCHANGED script
GetJointStates == \E s \in Sessions : get_joint_states(s) /\ UNCHANGED script
GetOperatingMode == \E s \in Sessions : get_operating_mode(s) /\ UNCHANGED script
BootDone == RemoteBootDone /\ UNCHANGED <<key, last, pc, calls>>

Next ==
    \/ TakeControl
    \/ UnlockJoints
    \/ LockJoints
    \/ SetMode
    \/ Reboot
    \/ DeactivateFci
    \/ ActivateFci
    \/ GetJointStates
    \/ GetOperatingMode
    \/ BootDone

Spec == Init /\ [][Next]_vars

\* ------------------------------------------- SpecBoot: one run of enable_robot
\* The call log of the run. The poll loop is not bounded; the log is.
Polls(log) == Cardinality({i \in 1..Len(log) : log[i].op = "get_operating_mode"})

\* Polls beyond MaxPolls overwrite the latest recorded poll.
Logged(entry) ==
    LET e == [op |-> entry.op, outcome |-> entry.outcome,
              ret |-> entry.ret, hadKey |-> entry.hadKey]
    IN  IF entry.op = "get_operating_mode" /\ Polls(calls) >= MaxPolls
        THEN [calls EXCEPT ![Len(calls)] = e]
        ELSE Append(calls, e)

\* Where the script goes after each call (an uncaught exception ends the run).
\* try: take_control() / except Exception: ... reboot()
after_take1_always_reboot(outcome) == "reboot"
after_take1(outcome) == IF outcome = "ok" THEN "unlock" ELSE "reboot"
\* reboot(); time.sleep(60.0); while get_operating_mode() != "Execution"
after_reboot(outcome) == IF outcome = "ok" THEN "poll" ELSE "Failed"
\* while franka_desk.get_operating_mode() != "Execution": time.sleep(2.0)
after_poll_retry(outcome, ret) ==
    IF outcome = "ok" /\ ret = "Execution" THEN "take2" ELSE "poll"
after_poll_never_leaves(outcome, ret) ==
    IF outcome /= "ok" THEN "Failed" ELSE "poll"
after_poll_no_wait(outcome, ret) == IF outcome /= "ok" THEN "Failed" ELSE "take2"
after_poll(outcome, ret) ==
    IF outcome /= "ok" THEN "Failed"
    ELSE IF ret /= "Execution" THEN "poll"
    ELSE "take2"
\* the take_control() inside the except block
after_take2_retry(outcome) == IF outcome = "ok" THEN "unlock" ELSE "reboot"
after_take2(outcome) == IF outcome = "ok" THEN "unlock" ELSE "Failed"
after_unlock_anyway(outcome) == "activate"
after_unlock(outcome) == IF outcome = "ok" THEN "activate" ELSE "Failed"
after_activate(outcome) == IF outcome = "ok" THEN "Enabled" ELSE "Failed"

\* The robot enable_robot finds: owned by some other client or by nobody, in
\* any mode, joints and FCI in any state.
InitBoot ==
    /\ key = [s \in Sessions |-> None]
    /\ \E owned \in BOOLEAN :
          /\ valid = IF owned THEN 1 ELSE None
          /\ issued = IF owned THEN 1 ELSE 0
    /\ joints \in {"locked", "unlocked"}
    /\ fci \in BOOLEAN
    /\ mode \in Modes
    /\ last = NoCall
    /\ pc = "start"
    /\ calls = <<>>

\* user / password from the environment, then FrankaDesk(...)
BootStart ==
    /\ pc = "start"
    /\ \E credentials \in BOOLEAN :
          pc' = IF credentials THEN "take1" ELSE "Failed"
    /\ UNCHANGED <<key, remote, last, calls>>

BootTake1 ==
    /\ pc = "take1"
    /\ take_control(Boot)
    /\ pc' = after_take1(last'.outcome)
    /\ calls' = Logged(last')

BootReboot ==
    /\ pc = "reboot"
    /\ reboot(Boot)
    /\ pc' = after_reboot(last'.outcome)
    /\ calls' = Logged(last')

BootPoll ==
    /\ pc = "poll"
    /\ get_operating_mode(Boot)
    /\ pc' = after_poll(last'.outcome, last'.ret)
    /\ calls' = Logged(last')

BootTake2 ==
    /\ pc = "take2"
    /\ take_control(Boot)
    /\ pc' = after_take2(last'.outcome)
    /\ calls' = Logged(last')

BootUnlock ==
    /\ pc = "unlock"
    /\ unlock_joints(Boot)
    /\ pc' = after_unlock(last'.outcome)
    /\ calls' = Logged(last')

BootActivate ==
    /\ pc = "activate"
    /\ activate_fci(Boot)
    /\ pc' = after_activate(last'.outcome)
    /\ calls' = Logged(last')

NextBoot ==
    \/ BootStart
    \/ BootTake1
    \/ BootReboot
    \/ BootPoll
    \/ BootTake2
    \/ BootUnlock
    \/ BootActivate
    \/ BootDone

SpecBoot == InitBoot /\ [][NextBoot]_vars

\* The script is sequential and blocking: as long as every remote call comes
\* back (with an answer or an exception), its next statement is executed.
BootStep ==
    \/ BootStart
    \/ BootTake1
    \/ BootReboot
    \/ BootPoll
    \/ BootTake2
    \/ BootUnlock
    \/ BootActivate

SpecBootFair == SpecBoot /\ WF_vars(BootStep)

\* ---------------------------------- SpecAll: either use of the client
\* Free use of the API (pc = "idle") or one run of enable_robot.
InitAll == Init \/ InitBoot

NextAll ==
    \/ (pc = "idle" /\ TakeControl)
    \/ (pc = "idle" /\ UnlockJoints)
    \/ (pc = "idle" /\ LockJoints)
    \/ (pc = "idle" /\ SetMode)
    \/ (pc = "idle" /\ Reboot)
    \/ (pc = "idle" /\ DeactivateFci)
    \/ (pc = "idle" /\ ActivateFci)
    \/ (pc = "idle" /\ GetJointStates)
    \/ (pc = "idle" /\ GetOperatingMode)
    \/ NextBoot

SpecAll == InitAll /\ [][NextAll]_vars

\* ------------------------- SpecPair: the legacy client next to the current one
\* A FrankaDesk of franka_desk_api_client/franka_desk.py (session Legacy,
\* its _key in key[Legacy]) and one of src/franka_desk.py (session Current)
\* make the same take_control calls and are given the same answers; the
\* token of an answer is the field each version reads ("control_key",
\* "token").
Current == 1
Legacy == 2

\* legacy __init__ stores robot_ip, user and password but never self._name
legacy_has_name == FALSE

\* legacy take_control: post with json={"owner": self._name},
\* raise_for_status, self._key = response.json()["control_key"]
legacy_take_control_outcome(r) ==
    IF ~legacy_has_name THEN "AttributeError"
    ELSE IF Checked(r) /= "ok" THEN Checked(r)
    ELSE IF ~r.body.json THEN "ValueError"
    ELSE IF r.body.token = None THEN "KeyError"
    ELSE "ok"

legacy_stored_key(r) ==
    IF legacy_take_control_outcome(r) = "ok" THEN r.body.token ELSE key[Legacy]

\* legacy has_control(): self._key is not None
legacy_has_control == key[Legacy] /= None

PairTake ==
    \E r \in Answers(TokenBodies) :
        /\ RemoteTake(r)
        /\ key' = [stored_key(Current, r) EXCEPT ![Legacy] = legacy_stored_key(r)]
        /\ last' = Call(Current, "take_control", take_control_outcome(r), TRUE, r, MISSING, <<>>)
        /\ UNCHANGED script

\* The robot is rebooted by its operator, which frees control.
RobotRebooted ==
    /\ mode /= "Booting"
    /\ RemoteReboot([delivered |-> TRUE, status |-> OK, body |-> NoBody])
    /\ UNCHANGED <<key, last, pc, calls>>

NextPair ==
    \/ PairTake
    \/ RobotRebooted
    \/ BootDone

SpecPair == Init /\ [][NextPair]_vars

\* ------------------------------------------------------------------ claims
GatedOps == {"unlock_joints", "lock_joints", "set_mode", "activate_fci", "deactivate_fci"}
TolerantOps == {"unlock_joints", "activate_fci"}
StrictOps == {"lock_joints", "set_mode", "deactivate_fci"}
Count(op) == Cardinality({i \in 1..Len(calls) : calls[i].op = op})
Answered == last.sent /\ last.status /= 0

\* C1: a control-gated method called while the token is absent fails with
\* RuntimeError and issues no network request.
C1_GatedWithoutTokenRaises ==
    (last.op \in GatedOps /\ ~last.hadKey)
        => (last.outcome = "RuntimeError" /\ ~last.sent)

\* C2: after a take_control that returned without error, has_control() is
\* true and the stored token is the token the remote returned.
C2_TakeControlHoldsToken ==
    (last.op = "take_control" /\ last.outcome = "ok")
        => (has_control(last.session) /\ key[last.session] = last.tok)

\* C3: enable_robot never calls unlock_joints or activate_fci while the
\* session's token is absent.
C3_NoUnlockWithoutToken ==
    \A i \in 1..Len(calls) :
        calls[i].op \in TolerantOps => calls[i].hadKey

\* C4: when the first take_control fails and a later one succeeds, the run
\* is take_control (fails), one reboot, one or more polls of which only the
\* last returned "Execution", the second and last take_control, and then
\* nothing but unlock_joints and activate_fci.
C4_RecoveryOrder ==
    \A i \in 2..Len(calls) :
        (calls[i].op = "take_control" /\ calls[i].outcome = "ok") =>
            /\ calls[1].op = "take_control" /\ calls[1].outcome /= "ok"
            /\ calls[2].op = "reboot"
            /\ i >= 4
            /\ \A j \in 3..(i - 1) :
                  /\ calls[j].op = "get_operating_mode"
                  /\ calls[j].outcome = "ok"
                  /\ (calls[j].ret = "Execution") <=> (j = i - 1)
            /\ Count("take_control") = 2
            /\ Count("reboot") = 1
            /\ \A j \in (i + 1)..Len(calls) :
                  calls[j].op = IF j = i + 1 THEN "unlock_joints" ELSE "activate_fci"
            /\ (i = Len(calls)) => pc = "unlock"

C4_Witness ==
    /\ Len(calls) >= 6
    /\ calls[1].outcome /= "ok"
    /\ Polls(calls) >= 2
    /\ calls[Len(calls)].op = "unlock_joints"
    /\ calls[Len(calls)].outcome = "ok"

\* C5: when the first take_control and the take_control retried after the
\* recovery both fail, the run has ended with that error: take_control was
\* called twice, reboot once, unlock_joints and activate_fci never.
C5_SecondFailureIsFatal ==
    \A i \in 2..Len(calls) :
        (calls[i].op = "take_control" /\ calls[i].outcome /= "ok") =>
            /\ pc = "Failed"
            /\ i = Len(calls)
            /\ last.op = "take_control" /\ last.outcome = calls[i].outcome
            /\ Count("take_control") = 2
            /\ Count("reboot") = 1
            /\ Count("unlock_joints") = 0
            /\ Count("activate_fci") = 0

C5_Witness ==
    /\ pc = "Failed"
    /\ Count("take_control") = 2
    /\ calls[Len(calls)].outcome = "HTTPError"

\* C6: reboot is called at most once and only right after the first
\* take_control failed; when the first take_control succeeds there is no
\* reboot, no poll and no second take_control, and once unlock_joints and
\* activate_fci have succeeded too the run is in Enabled.
C6_RebootOnlyAfterFailure ==
    /\ Count("reboot") <= 1
    /\ \A i \in 1..Len(calls) :
          calls[i].op = "reboot" =>
              (i = 2 /\ calls[1].op = "take_control" /\ calls[1].outcome /= "ok")
    /\ (Len(calls) >= 1 /\ calls[1].outcome = "ok") =>
          /\ calls[1].op = "take_control"
          /\ Count("reboot") = 0
          /\ Count("get_operating_mode") = 0
          /\ Count("take_control") = 1
          /\ (/\ Len(calls) = 3
              /\ calls[2].op = "unlock_joints" /\ calls[2].outcome = "ok"
              /\ calls[3].op = "activate_fci" /\ calls[3].outcome = "ok")
                <=> pc = "Enabled"

C6_Witness ==
    /\ pc = "Enabled"
    /\ calls[1].outcome = "ok"
    /\ Len(calls) = 3

\* C7 as stated: with a token held, unlock_joints and activate_fci return
\* without error exactly when the status is 200 or 500.
C7_OnlyOkAndTolerated ==
    (last.op \in TolerantOps /\ last.hadKey /\ Answered)
        => (last.outcome = "ok" <=> last.status \in {OK, TOLERATED})

\* C7 amended: with a token held, unlock_joints and activate_fci raise
\* exactly for the 4xx and 5xx statuses other than 500, and a second
\* unlock_joints answered 500 right after a successful one succeeds too.
C7_TolerantStatuses ==
    /\ (last.op \in TolerantOps /\ last.hadKey /\ Answered)
          => (last.outcome = "ok"
                <=> (last.status < 400 \/ last.status >= 600 \/ last.status = 500))
    /\ (last.op = "unlock_joints" /\ last.hadKey /\ last.again /\ last.status = 500)
          => last.outcome = "ok"

C7_Witness ==
    /\ last.op = "unlock_joints"
    /\ last.hadKey
    /\ last.again
    /\ last.status = 500
    /\ last.outcome = "ok"

\* C8 as stated: with a token held, lock_joints, deactivate_fci and set_mode
\* raise for every status other than 200.
C8_OnlyOk ==
    (last.op \in StrictOps /\ last.hadKey /\ Answered /\ last.status /= OK)
        => last.outcome /= "ok"

\* C8 amended: with a token held, lock_joints, deactivate_fci and set_mode
\* raise exactly for the 4xx and 5xx statuses, 500 included.
C8_StrictStatuses ==
    (last.op \in StrictOps /\ last.hadKey /\ Answered)
        => (last.outcome = "ok" <=> (last.status < 400 \/ last.status >= 600))

C8_Witness ==
    /\ last.op = "lock_joints"
    /\ last.hadKey
    /\ last.status = 500
    /\ last.outcome = "HTTPError"

\* C9: when enable_robot has reached Enabled, the robot's joints are
\* unlocked and its fast control interface is active.
C9_EnabledMeansReady ==
    pc = "Enabled" => (joints = "unlocked" /\ fci)

\* C10: a session whose has_control() is true holds the token the remote
\* currently accepts, so at most one session has has_control() true.
C10_HasControlMeansValid ==
    /\ \A s \in Sessions : has_control(s) => key[s] = valid
    /\ Cardinality({s \in Sessions : has_control(s)}) <= 1

\* C11: the token is absent at construction, and a session that held a
\* token when it entered a method still holds one when the method is over.
C11_TokenNeverAbsentAgain ==
    /\ (last.op = "none") => (\A s \in Sessions : ~has_control(s))
    /\ last.hadKey => has_control(last.session)

\* C12: every method other than take_control leaves self.key of every
\* session as it was, whether it returns or raises.
C12_OnlyTakeControlWritesKey ==
    [][last'.op /= "take_control" => key' = key]_vars

C12_Witness ==
    /\ last.op = "reboot"
    /\ last.outcome = "ok"
    /\ last.status = OK
    /\ last.hadKey
    /\ has_control(last.session)
    /\ valid = None

\* C13: a take_control that raises leaves self.key of every session as it
\* was.
C13_FailedTakeKeepsKey ==
    [][(last'.op = "take_control" /\ last'.outcome /= "ok") => key' = key]_vars

C13_Witness ==
    /\ last.op = "take_control"
    /\ last.outcome = "HTTPError"
    /\ last.hadKey
    /\ has_control(last.session)

\* C14: enable_robot calls unlock_joints and activate_fci at most once
\* each, activate_fci only right after unlock_joints returned without error,
\* and an unlock_joints that raised is the last call of the run.
C14_UnlockThenActivateOnce ==
    /\ Count("unlock_joints") <= 1
    /\ Count("activate_fci") <= 1
    /\ \A i \in 1..Len(calls) :
          calls[i].op = "activate_fci" =>
              (i > 1 /\ calls[i - 1].op = "unlock_joints" /\ calls[i - 1].outcome = "ok")
    /\ \A i \in 1..Len(calls) :
          (calls[i].op = "unlock_joints" /\ calls[i].outcome /= "ok") =>
              /\ i = Len(calls)
              /\ pc = "Failed"
              /\ last.op = "unlock_joints" /\ last.outcome = calls[i].outcome
              /\ Count("activate_fci") = 0

C14_Witness ==
    /\ pc = "Failed"
    /\ Len(calls) >= 2
    /\ calls[Len(calls)].op = "unlock_joints"
    /\ calls[Len(calls)].outcome = "HTTPError"

Terminal == pc \in {"Enabled", "Failed"}
ExecutionReported ==
    last.op = "get_operating_mode" /\ last.outcome = "ok" /\ last.ret = "Execution"

\* C15: if every remote call comes back and, whenever the script is in the
\* poll loop, get_operating_mode eventually reports "Execution", the run
\* eventually reaches Enabled or a fatal error; and the only ways out of the
\* poll loop are a poll that reported "Execution" and a poll that raised.
C15_TerminatesIfExecutionReported ==
    /\ [](pc = "poll" => <>ExecutionReported) => <>Terminal
    /\ [][(pc = "poll" /\ pc' /= "poll") =>
            \/ (pc' = "take2" /\ ExecutionReported')
            \/ (pc' = "Failed" /\ last'.op = "get_operating_mode" /\ last'.outcome /= "ok")]_vars

C15_Witness ==
    /\ pc = "poll"
    /\ Polls(calls) = MaxPolls
    /\ last.op = "get_operating_mode"
    /\ last.outcome = "ok"
    /\ last.ret = "Booting"

\* C16: a get_operating_mode poll that raised is the last call of the run:
\* the run has ended with that error after one take_control, and
\* unlock_joints and activate_fci were never called.
C16_PollFailureIsFatal ==
    \A i \in 1..Len(calls) :
        (calls[i].op = "get_operating_mode" /\ calls[i].outcome /= "ok") =>
            /\ i = Len(calls)
            /\ pc = "Failed"
            /\ last.op = "get_operating_mode" /\ last.outcome = calls[i].outcome
            /\ Count("take_control") = 1
            /\ Count("unlock_joints") = 0
            /\ Count("activate_fci") = 0

C16_Witness ==
    /\ pc = "Failed"
    /\ Polls(calls) >= 2
    /\ calls[Len(calls)].op = "get_operating_mode"
    /\ calls[Len(calls)].outcome = "HTTPError"

C18_SameHasControl ==
    legacy_has_control = has_control(Current)

====
